---- MODULE Spec2Model ----
\* Navigation / cursor state machine of the terminal file explorer
\* (src/src/components/app.rs), driven by the loop of App::run.
EXTENDS Integers, Sequences, FiniteSets, TLC

VARIABLES
    exit,                  \* App.exit
    current_dir_path,      \* App.current_dir_path
    current_dir_contents,  \* App.current_dir_contents
    cursor_positions,      \* App.cursor_positions
    current_cursor_depth,  \* App.current_cursor_depth
    view_file,             \* App.view_file
    pc,                    \* position of the control loop: "new", "draw", "event"
    status,                \* "running", "exited" (run returned Ok) or "panicked"
    overflow_checks,       \* the build: TRUE = overflow panics (debug), FALSE = wraps (release)
    shallowest,            \* the least depth whose directory has been the current one
    history                \* the last commands handled, each with the state it was applied to

vars == <<exit, current_dir_path, current_dir_contents, cursor_positions,
          current_cursor_depth, view_file, pc, status, overflow_checks,
          shallowest, history>>

-----------------------------------------------------------------------------
\* Bounds of the model.

\* Terminal heights range over 2..MaxFrameHeight (2 and 3 both give column height 0).
MaxFrameHeight == 6

\* A cursor that has left the entry list keeps growing under MoveDown (and, in
\* a build without overflow checks, keeps shrinking from usize::MAX under
\* MoveUp); commands that would take it further than this from 0 (resp. from
\* 2^64) are not explored.
MaxCursor == 6

FrameHeights == 2..MaxFrameHeight

-----------------------------------------------------------------------------
\* usize values.  A value v is represented by the integer v when it is small,
\* and by v - 2^64 (a negative integer) when it is within reach of usize::MAX:
\* -1 stands for usize::MAX.  +, - and * on representatives are the wrapping
\* operations; order, overflow and remainder are defined on the value.

ULt(a, b) == IF (a >= 0) = (b >= 0) THEN a < b ELSE a >= 0
UGe(a, b) == ~ULt(a, b)

SubOverflows(a, b) == ULt(a, b)
AddOverflows(a, b) ==
    IF a >= 0 /\ b >= 0 THEN FALSE
    ELSE IF a < 0 /\ b < 0 THEN TRUE
    ELSE a + b >= 0
MulOverflows(a, b) ==
    IF a >= 0 /\ b >= 0 THEN FALSE
    ELSE IF a = 0 \/ b = 0 \/ a = 1 \/ b = 1 THEN FALSE
    ELSE TRUE

\* 2^64 mod n, by squaring 2 six times.
TwoPow64Mod(n) ==
    LET sq(x) == (x * x) % n
    IN  sq(sq(sq(sq(sq(sq(2 % n))))))

\* the remainder as it would be if it were never taken
URem_skipped(a, n) == a

\* a % n on the value of a (n > 0).
URem(a, n) ==
    IF a >= 0 THEN a % n
    ELSE (TwoPow64Mod(n) + n - ((0 - a) % n)) % n

\* division as it would be if the remainder were dropped
div_floor(a, b) == a \div b

\* a / n on the value of a (n > 0).  The quotient of a wrapped value is at
\* least (2^64 - MaxCursor) / n, above every index a list can have: it is
\* given as usize::MAX.
UDiv(a, n) == IF a >= 0 THEN a \div n ELSE 0 - 1

\* usize::div_ceil (b > 0): quotient, plus one when there is a remainder.
div_ceil(a, b) ==
    LET d == a \div b
        r == a % b
    IN  IF r > 0 THEN d + 1 ELSE d

\* u16::saturating_sub
saturating_sub(a, b) == IF a > b THEN a - b ELSE 0

-----------------------------------------------------------------------------
\* The file system the program browses.  A name is its sequence of bytes, a
\* path the sequence of the names below the root "/" (every path is absolute).

n_a  == <<97>>            \* "a"
n_b  == <<98>>            \* "b"
n_d  == <<100>>           \* "d"
n_e  == <<101>>           \* "e"
n_g  == <<103>>           \* "g"
n_in == <<105, 110>>      \* "in"
n_l  == <<108>>           \* "l"
n_s  == <<115>>           \* "s"
n_y  == <<121>>           \* "y"
n_ya == <<121, 97>>       \* "ya"
n_z  == <<122>>           \* "z"

RootPath == <<>>

Raw(name) == [name |-> name, err |-> FALSE]
Bad(name) == [name |-> name, err |-> TRUE]
DirNode(raw, readable) == [kind |-> "dir", readable |-> readable, raw |-> raw]
FileNode == [kind |-> "file", readable |-> TRUE, raw |-> <<>>]
OtherNode == [kind |-> "other", readable |-> TRUE, raw |-> <<>>]

\*  /      a (file)  d/  e/ (empty)  l/ (cannot be listed)  s (socket)
\*         z (an entry whose read fails while listing)
\*  /d     b/  y (file)  ya (file)
\*  /d/b   g (file)
\*  /l     in/
\*  /l/in  g (file)
\* raw is the order in which the operating system enumerates the directory.
FileSystem ==
    (RootPath :> DirNode(<<Raw(n_s), Raw(n_l), Bad(n_z), Raw(n_a), Raw(n_e), Raw(n_d)>>, TRUE))
    @@ (<<n_a>> :> FileNode)
    @@ (<<n_s>> :> OtherNode)
    @@ (<<n_e>> :> DirNode(<<>>, TRUE))
    @@ (<<n_d>> :> DirNode(<<Raw(n_ya), Raw(n_b), Raw(n_y)>>, TRUE))
    @@ (<<n_d, n_y>> :> FileNode)
    @@ (<<n_d, n_ya>> :> FileNode)
    @@ (<<n_d, n_b>> :> DirNode(<<Raw(n_g)>>, TRUE))
    @@ (<<n_d, n_b, n_g>> :> FileNode)
    @@ (<<n_l>> :> DirNode(<<Raw(n_in)>>, FALSE))
    @@ (<<n_l, n_in>> :> DirNode(<<Raw(n_g)>>, TRUE))
    @@ (<<n_l, n_in, n_g>> :> FileNode)

\* The directories the program can be started in.
StartPaths == {p \in DOMAIN FileSystem : FileSystem[p].kind = "dir"}

is_dir(p) == p \in DOMAIN FileSystem /\ FileSystem[p].kind = "dir"
is_file(p) == p \in DOMAIN FileSystem /\ FileSystem[p].kind = "file"

\* What reading a path line by line gives: whether File::open succeeds and
\* the items BufReader::lines yields, a line or an error (a read that fails,
\* bytes that are not UTF-8).
LineOk(text) == [ok |-> TRUE, text |-> text]
LineErr == [ok |-> FALSE, text |-> ""]
Opens(items) == [ok |-> TRUE, items |-> items]
OpenFails == [ok |-> FALSE, items |-> <<>>]

\*  /a       five lines               /d/y     cannot be opened
\*  /d/ya    its second line fails    /d/b/g   empty
\*  /l/in/g  its fourth line fails
FileData ==
    (<<n_a>> :> Opens(<<LineOk("a1"), LineOk("a2"), LineOk("a3"), LineOk("a4"), LineOk("a5")>>))
    @@ (<<n_d, n_y>> :> OpenFails)
    @@ (<<n_d, n_ya>> :> Opens(<<LineOk("ya1"), LineErr, LineOk("ya3")>>))
    @@ (<<n_d, n_b, n_g>> :> Opens(<<>>))
    @@ (<<n_l, n_in, n_g>> :> Opens(<<LineOk("g1"), LineOk("g2"), LineOk("g3"), LineErr>>))

\* File::open and the reads that follow: a directory opens and its first read
\* fails, a socket does not open.
file_open(p) ==
    IF is_file(p) THEN FileData[p]
    ELSE IF is_dir(p) THEN Opens(<<LineErr>>)
    ELSE OpenFails

\* Order of OsStr / of Path: bytewise, resp. component by component.
BytesLess(s, t) ==
    \E k \in 1..(Len(s) + 1) :
        /\ \A j \in 1..(k - 1) : j <= Len(t) /\ s[j] = t[j]
        /\ IF k <= Len(s) THEN k <= Len(t) /\ s[k] < t[k] ELSE k <= Len(t)

PathLess(p, q) ==
    \E k \in 1..(Len(p) + 1) :
        /\ \A j \in 1..(k - 1) : j <= Len(q) /\ p[j] = q[j]
        /\ IF k <= Len(p) THEN k <= Len(q) /\ BytesLess(p[k], q[k]) ELSE k <= Len(q)

\* itertools::sorted: a stable sort of the paths.
RECURSIVE Insert(_, _)
Insert(s, p) ==
    IF s = <<>> THEN <<p>>
    ELSE IF PathLess(p, Head(s)) THEN <<p>> \o s
    ELSE <<Head(s)>> \o Insert(Tail(s), p)

RECURSIVE sorted(_)
sorted(s) == IF s = <<>> THEN <<>> ELSE Insert(sorted(SubSeq(s, 1, Len(s) - 1)), s[Len(s)])

\* std::fs::read_dir(p).unwrap() followed by the filter_map: Err when the
\* directory cannot be listed, else the paths of the entries that were read.
RECURSIVE entry_paths(_, _)
entry_paths(p, raw) ==
    IF raw = <<>> THEN <<>>
    ELSE (IF Head(raw).err THEN <<>> ELSE <<Append(p, Head(raw).name)>>)
         \o entry_paths(p, Tail(raw))

\* read_dir as it would be if a failure to list gave the entries anyway
read_dir_ok_lenient(p) == is_dir(p)

read_dir_ok(p) == is_dir(p) /\ FileSystem[p].readable

\* the listing as it would be stored if it were left in enumeration order
dir_listing_unsorted(p) == entry_paths(p, FileSystem[p].raw)

\* The sorted listing App::new and update_current_dir_contents store.
dir_listing(p) == sorted(entry_paths(p, FileSystem[p].raw))

\* PathBuf::push with an absolute argument replaces the path.
path_push(p, q) == q

\* PathBuf::pop: drops the last component; the root is left as it is.
path_pop(p) == IF p = <<>> THEN p ELSE SubSeq(p, 1, Len(p) - 1)

\* Path::ancestors().count() of an absolute path.
ancestors_count(p) == Len(p) + 1

-----------------------------------------------------------------------------
\* The App value and the outcome of a method: the state it leaves and whether
\* it panicked on the way.

Self ==
    [exit |-> exit,
     current_dir_path |-> current_dir_path,
     current_dir_contents |-> current_dir_contents,
     cursor_positions |-> cursor_positions,
     current_cursor_depth |-> current_cursor_depth,
     view_file |-> view_file]

\* App::default()
DefaultApp ==
    [exit |-> FALSE,
     current_dir_path |-> <<>>,
     current_dir_contents |-> <<>>,
     cursor_positions |-> <<>>,
     current_cursor_depth |-> 0,
     view_file |-> FALSE]

Ret(s) == [state |-> s, panic |-> FALSE]
Panic(s) == [state |-> s, panic |-> TRUE]

\* Vec indexing v[i] is in bounds.
InBounds(v, i) == i >= 0 /\ i < Len(v)

\* self.cursor_positions[self.current_cursor_depth] does not panic.
depth_ok(self) == InBounds(self.cursor_positions, self.current_cursor_depth)

current_cursor_position(self) == self.cursor_positions[self.current_cursor_depth + 1]

\* self.current_dir_contents[self.current_cursor_position()] does not panic.
selection_ok(self) ==
    depth_ok(self) /\ InBounds(self.current_dir_contents, current_cursor_position(self))

currently_selected_file(self) == self.current_dir_contents[current_cursor_position(self) + 1]

currently_on_dir(self) == is_dir(currently_selected_file(self))

currently_on_file(self) == is_file(currently_selected_file(self))

\* the assignment as it would be if it wrote every slot of the stack
set_cursor_all(self, v) ==
    [self EXCEPT !.cursor_positions = [k \in 1..Len(self.cursor_positions) |-> v]]

\* self.cursor_positions[self.current_cursor_depth] = v
set_cursor(self, v) ==
    [self EXCEPT !.cursor_positions[self.current_cursor_depth + 1] = v]

-----------------------------------------------------------------------------
\* The methods of App.

\* App::new: None when read_dir(..).unwrap() panics.
new_ok(start) == read_dir_ok(start)

\* App::new as it would be with a cursor stack of one slot (vec![0])
new_one_slot(start) ==
    [exit |-> FALSE,
     current_dir_path |-> start,
     current_dir_contents |-> dir_listing(start),
     cursor_positions |-> <<0>>,
     current_cursor_depth |-> ancestors_count(start) - 1,
     view_file |-> FALSE]

new(start) ==
    LET depth == ancestors_count(start) - 1
    IN  [exit |-> FALSE,
         current_dir_path |-> start,
         current_dir_contents |-> dir_listing(start),
         cursor_positions |-> [i \in 1..(depth + 1) |-> 0],
         current_cursor_depth |-> depth,
         view_file |-> FALSE]

\* fn exit
\* App::exit as it would be if it left the flag alone
exit_app_ignored(self) == Ret(self)

exit_app(self) == Ret([self EXCEPT !.exit = TRUE])

\* fn view_file
toggle_view_file(self) == Ret([self EXCEPT !.view_file = ~self.view_file])

\* move_cursor_up as it would be if it stopped at index 0 instead of wrapping
move_cursor_up_clamped(self) ==
    IF ~depth_ok(self) THEN Panic(self)
    ELSE IF current_cursor_position(self) = 0 THEN Ret(self)
    ELSE Ret(set_cursor(self, current_cursor_position(self) - 1))

move_cursor_up(self) ==
    IF ~depth_ok(self) THEN Panic(self)
    ELSE IF current_cursor_position(self) = 0
    THEN IF SubOverflows(Len(self.current_dir_contents), 1) /\ overflow_checks
         THEN Panic(self)
         ELSE Ret(set_cursor(self, Len(self.current_dir_contents) - 1))
    ELSE Ret(set_cursor(self, current_cursor_position(self) - 1))

move_cursor_down(self) ==
    IF ~depth_ok(self) THEN Panic(self)
    ELSE IF SubOverflows(Len(self.current_dir_contents), 1) /\ overflow_checks
    THEN Panic(self)
    ELSE IF current_cursor_position(self) = Len(self.current_dir_contents) - 1
    THEN Ret(set_cursor(self, 0))
    ELSE IF AddOverflows(current_cursor_position(self), 1) /\ overflow_checks
    THEN Panic(self)
    ELSE Ret(set_cursor(self, current_cursor_position(self) + 1))

\* move_cursor_right as it would be if a short last column sent the cursor
\* one past its last entry
move_cursor_right_past_end(self, frame_height) ==
    LET column_height == saturating_sub(frame_height, 3)
        len == Len(self.current_dir_contents)
    IN  IF column_height = 0 \/ ~depth_ok(self) THEN Panic(self)
        ELSE LET number_of_columns == div_ceil(len, column_height)
                 new_position == current_cursor_position(self) + column_height
             IN
        IF ULt(new_position, len) THEN Ret(set_cursor(self, new_position))
        ELSE IF ULt(new_position, column_height * number_of_columns)
        THEN Ret(set_cursor(self, len))
        ELSE IF number_of_columns = 0 THEN Panic(self)
        ELSE Ret(set_cursor(self, URem(new_position, number_of_columns)))

move_cursor_right(self, frame_height) ==
    LET column_height == saturating_sub(frame_height, 3)
        len == Len(self.current_dir_contents)
    IN  IF column_height = 0 THEN Panic(self)       \* div_ceil(0)
        ELSE LET number_of_columns == div_ceil(len, column_height) IN
        IF ~depth_ok(self) THEN Panic(self)
        ELSE IF AddOverflows(current_cursor_position(self), column_height) /\ overflow_checks
        THEN Panic(self)
        ELSE LET new_position == current_cursor_position(self) + column_height IN
        IF ULt(new_position, len)
        THEN Ret(set_cursor(self, new_position))
        ELSE IF ULt(new_position, column_height * number_of_columns)
        THEN IF SubOverflows(len, 1) /\ overflow_checks
             THEN Panic(self)
             ELSE Ret(set_cursor(self, len - 1))
        ELSE IF number_of_columns = 0 THEN Panic(self)   \* % 0
        ELSE Ret(set_cursor(self, URem(new_position, number_of_columns)))

\* move_cursor_left as it would be if a missing entry in the last column sent
\* the cursor to the last entry
move_cursor_left_clamped(self, frame_height) ==
    LET column_height == saturating_sub(frame_height, 3)
        len == Len(self.current_dir_contents)
    IN  IF column_height = 0 \/ ~depth_ok(self) \/ len = 0 THEN Panic(self)
        ELSE LET number_of_columns == div_ceil(len, column_height)
                 pos == current_cursor_position(self)
                 new_position == IF UGe(pos, column_height) THEN pos - column_height
                                 ELSE (number_of_columns - 1) * column_height + pos
             IN
        IF UGe(new_position, len) THEN Ret(set_cursor(self, len - 1))
        ELSE Ret(set_cursor(self, new_position))

move_cursor_left(self, frame_height) ==
    LET column_height == saturating_sub(frame_height, 3)
        len == Len(self.current_dir_contents)
    IN  IF column_height = 0 THEN Panic(self)       \* div_ceil(0)
        ELSE LET number_of_columns == div_ceil(len, column_height) IN
        IF ~depth_ok(self) THEN Panic(self)
        ELSE LET pos == current_cursor_position(self)
                 \* the argument of unwrap_or is evaluated whether or not it is used
                 cols_less_1 == number_of_columns - 1
                 product == cols_less_1 * column_height
                 wrapped == product + pos
                 overflows == \/ SubOverflows(number_of_columns, 1)
                              \/ MulOverflows(cols_less_1, column_height)
                              \/ AddOverflows(product, pos)
                 new_position == IF UGe(pos, column_height) THEN pos - column_height
                                 ELSE wrapped
             IN
        IF overflows /\ overflow_checks THEN Panic(self)
        ELSE IF UGe(new_position, len)
        THEN Ret(set_cursor(self, len))
        ELSE Ret(set_cursor(self, new_position))

\* update_current_dir_contents as it would be if it kept the old listing
update_current_dir_contents_stale(self) == self

\* fn update_current_dir_contents, on success
update_current_dir_contents(self) ==
    [self EXCEPT !.current_dir_contents = dir_listing(self.current_dir_path)]

\* go_into_dir as it would be if it reset the cursor of the directory it leaves
go_into_dir_resets_parent(self) ==
    LET pushed == [self EXCEPT !.current_dir_path =
                       path_push(self.current_dir_path, currently_selected_file(self))]
    IN  IF ~read_dir_ok(pushed.current_dir_path) THEN Panic(pushed)
        ELSE LET listed == set_cursor(update_current_dir_contents(pushed), 0)
                 deeper == [listed EXCEPT !.current_cursor_depth = @ + 1]
             IN  Ret([deeper EXCEPT !.cursor_positions = Append(@, 0)])

go_into_dir(self) ==
    LET pushed == [self EXCEPT !.current_dir_path =
                       path_push(self.current_dir_path, currently_selected_file(self))]
    IN  IF ~read_dir_ok(pushed.current_dir_path) THEN Panic(pushed)
        ELSE LET listed == update_current_dir_contents(pushed) IN
        IF AddOverflows(listed.current_cursor_depth, 1) /\ overflow_checks
        THEN Panic(listed)
        ELSE LET deeper == [listed EXCEPT !.current_cursor_depth = @ + 1] IN
        IF UGe(deeper.current_cursor_depth, Len(deeper.cursor_positions))
        THEN Ret([deeper EXCEPT !.cursor_positions = Append(@, 0)])
        ELSE Ret(deeper)

\* Vec::pop as it would be if the slot were never removed
vec_pop_forgotten(v) == v

\* Vec::pop
vec_pop(v) == IF v = <<>> THEN v ELSE SubSeq(v, 1, Len(v) - 1)

\* go_out_of_dir as it would be if it also reset the cursor of the parent
go_out_of_dir_zeroes_parent(self) ==
    LET popped == [self EXCEPT !.current_dir_path = path_pop(@)]
    IN  IF ~read_dir_ok(popped.current_dir_path) THEN Panic(popped)
        ELSE LET listed == update_current_dir_contents(popped) IN
        IF SubOverflows(listed.current_cursor_depth, 1) /\ overflow_checks
        THEN Panic(listed)
        ELSE Ret([listed EXCEPT !.current_cursor_depth = @ - 1,
                                !.cursor_positions =
                                    [k \in 1..Len(vec_pop(@)) |-> 0]])

go_out_of_dir(self) ==
    LET popped == [self EXCEPT !.current_dir_path = path_pop(@)]
    IN  IF ~read_dir_ok(popped.current_dir_path) THEN Panic(popped)
        ELSE LET listed == update_current_dir_contents(popped) IN
        IF SubOverflows(listed.current_cursor_depth, 1) /\ overflow_checks
        THEN Panic(listed)
        ELSE Ret([listed EXCEPT !.current_cursor_depth = @ - 1,
                                !.cursor_positions = vec_pop(@)])

\* the guard of the Enter arm as it would be if it accepted every entry
enter_guard_any(self) == TRUE

\* The guards of the match arms of handle_key_event.
enter_guard(self) == currently_on_dir(self)
preview_guard(self) == self.view_file \/ currently_on_file(self)

Keys == {"q", "Down", "Up", "Right", "Left", "Enter", "Backspace", "c"}

handle_key_event(self, key, frame_height) ==
    CASE key = "q" -> exit_app(self)
      [] key = "Down" -> move_cursor_down(self)
      [] key = "Up" -> move_cursor_up(self)
      [] key = "Right" -> move_cursor_right(self, frame_height)
      [] key = "Left" -> move_cursor_left(self, frame_height)
      [] key = "Enter" ->
            IF ~selection_ok(self) THEN Panic(self)
            ELSE IF enter_guard(self) THEN go_into_dir(self)
            ELSE Ret(self)
      [] key = "Backspace" -> go_out_of_dir(self)
      [] key = "c" ->
            IF ~self.view_file /\ ~selection_ok(self) THEN Panic(self)
            ELSE IF preview_guard(self) THEN toggle_view_file(self)
            ELSE Ret(self)
      [] OTHER -> Ret(self)

\* slice::chunks (size > 0): consecutive slices of size elements, the last
\* one holding what is left
RECURSIVE chunks(_, _)
chunks(v, size) ==
    IF v = <<>> THEN <<>>
    ELSE IF Len(v) <= size THEN <<v>>
    ELSE <<SubSeq(v, 1, size)>> \o chunks(SubSeq(v, size + 1, Len(v)), size)

get_dir_contents_as_columns(self, column_height) ==
    chunks(self.current_dir_contents, column_height)

\* the iterator as it would be without take: every item is read
take_all(items, n) == items

\* Iterator::take: the first n items
take(items, n) == SubSeq(items, 1, IF n < Len(items) THEN n ELSE Len(items))

\* collect::<Result<Vec<String>, _>>: the lines, or the first error
collect(items) ==
    IF \E k \in 1..Len(items) : ~items[k].ok
    THEN [ok |-> FALSE, lines |-> <<>>]
    ELSE [ok |-> TRUE, lines |-> [k \in 1..Len(items) |-> items[k].text]]

\* the preview render shows for file_path in a column of column_height lines
get_formatted_file_contents(file_path, column_height) ==
    LET file == file_open(file_path) IN
    IF file.ok
    THEN LET lines == collect(take(file.items, column_height)) IN
         IF lines.ok THEN lines.lines ELSE <<"Unable to read contents">>
    ELSE <<"Unable to read file">>

file_contents(self, column_height) ==
    get_formatted_file_contents(currently_selected_file(self), column_height)

\* the pair as it would be with row and column exchanged
current_cursor_row_and_column(self, column_height) ==
    <<URem(current_cursor_position(self), column_height),
      UDiv(current_cursor_position(self), column_height)>>

\* fn current_cursor_column_and_row (column_height > 0, depth_ok)
current_cursor_column_and_row(self, column_height) ==
    <<UDiv(current_cursor_position(self), column_height),
      URem(current_cursor_position(self), column_height)>>

\* the entries render draws with the cursor prefix: in the column whose index
\* is the cursor's column, the entry whose index is the cursor's row
marked_entries(self, column_height) ==
    LET dir_contents_columns == get_dir_contents_as_columns(self, column_height)
        cursor == current_cursor_column_and_row(self, column_height)
    IN  {dir_contents_columns[c + 1][r + 1] :
            <<c, r>> \in {cr \in (0..(Len(dir_contents_columns) - 1)) \X
                                 (0..(column_height - 1)) :
                            /\ cr[2] < Len(dir_contents_columns[cr[1] + 1])
                            /\ cr[1] = cursor[1]
                            /\ cr[2] = cursor[2]}}

\* Widget::render for &App panics: chunks(0), the lookup of the cursor, or
\* the lookup of the previewed entry.  (The terminal is at least one cell wide.)
render_panics(self, area_height) ==
    LET column_height == saturating_sub(area_height, 3)
    IN  \/ column_height = 0
        \/ ~depth_ok(self)
        \/ self.view_file /\ ~selection_ok(self)

-----------------------------------------------------------------------------
\* The program: main constructs the App and App::run loops
\*     while !self.exit { terminal.draw(..); self.handle_events(terminal.size()) }

AppFields == <<exit, current_dir_path, current_dir_contents, cursor_positions,
               current_cursor_depth, view_file>>

\* self becomes s
Becomes(s) ==
    /\ exit' = s.exit
    /\ current_dir_path' = s.current_dir_path
    /\ current_dir_contents' = s.current_dir_contents
    /\ cursor_positions' = s.cursor_positions
    /\ current_cursor_depth' = s.current_cursor_depth
    /\ view_file' = s.view_file

\* self is s
Is(s) ==
    /\ exit = s.exit
    /\ current_dir_path = s.current_dir_path
    /\ current_dir_contents = s.current_dir_contents
    /\ cursor_positions = s.cursor_positions
    /\ current_cursor_depth = s.current_cursor_depth
    /\ view_file = s.view_file

\* The commands remembered: the last two, oldest first.  Each is the key, the
\* frame height it was handled with (0 for the keys that do not read it), the
\* least depth browsed until then and the App it was applied to.
Remember(h, rec) == IF Len(h) < 2 THEN Append(h, rec) ELSE <<h[2], rec>>

WithinBounds(s) ==
    /\ s.current_cursor_depth >= 0 - MaxCursor
    /\ \A i \in 1..Len(s.cursor_positions) :
           /\ s.cursor_positions[i] <= MaxCursor
           /\ s.cursor_positions[i] >= 0 - MaxCursor

Init ==
    /\ overflow_checks \in BOOLEAN
    /\ history = <<>>
    /\ \E start \in StartPaths :
          /\ shallowest = ancestors_count(start) - 1
          /\ IF new_ok(start)
             THEN /\ Is(new(start))
                  /\ pc = "draw"
                  /\ status = "running"
             ELSE \* read_dir(&current_dir_path).unwrap() panics: no App is built,
                  \* current_dir_path is the argument of App::new
                  /\ Is([DefaultApp EXCEPT !.current_dir_path = start])
                  /\ pc = "new"
                  /\ status = "panicked"

\* terminal.draw(|frame| self.draw(frame)) on a terminal of some height
Draw ==
    /\ pc = "draw" /\ status = "running" /\ ~exit
    /\ \E area_height \in FrameHeights :
          IF render_panics(Self, area_height)
          THEN status' = "panicked" /\ pc' = pc
          ELSE status' = status /\ pc' = "event"
    /\ UNCHANGED <<AppFields, overflow_checks, shallowest, history>>

\* the loop condition fails: run returns Ok(())
RunReturns ==
    /\ pc = "draw" /\ status = "running" /\ exit
    /\ status' = "exited"
    /\ UNCHANGED <<AppFields, pc, overflow_checks, shallowest, history>>

\* handle_events reads a key press while the terminal has some height
KeyPress(key) ==
    /\ pc = "event" /\ status = "running"
    /\ \E frame_height \in FrameHeights :
          LET r == handle_key_event(Self, key, frame_height) IN
          /\ WithinBounds(r.state)
          /\ Becomes(r.state)
          /\ IF r.panic
             THEN status' = "panicked" /\ pc' = pc
             ELSE status' = status /\ pc' = "draw"
          /\ history' = Remember(history,
                 [key |-> key,
                  frame_height |-> IF key \in {"Left", "Right"} THEN frame_height ELSE 0,
                  shallowest |-> shallowest,
                  before |-> Self])
          /\ shallowest' = IF ~r.panic /\ ULt(r.state.current_cursor_depth, shallowest)
                           THEN r.state.current_cursor_depth
                           ELSE shallowest
    /\ UNCHANGED overflow_checks

Quit == KeyPress("q")
MoveDown == KeyPress("Down")
MoveUp == KeyPress("Up")
MoveRight == KeyPress("Right")
MoveLeft == KeyPress("Left")
Activate == KeyPress("Enter")
Back == KeyPress("Backspace")
TogglePreview == KeyPress("c")

\* handle_events reads anything else (a resize, a key release, an unbound key)
OtherEvent ==
    /\ pc = "event" /\ status = "running"
    /\ pc' = "draw"
    /\ UNCHANGED <<AppFields, status, overflow_checks, shallowest, history>>

Next ==
    \/ Draw
    \/ RunReturns
    \/ Quit
    \/ MoveDown
    \/ MoveUp
    \/ MoveRight
    \/ MoveLeft
    \/ Activate
    \/ Back
    \/ TogglePreview
    \/ OtherEvent

Spec == Init /\ [][Next]_vars

\* run is sequential code: once handle_events has returned with the flag set,
\* the loop condition is evaluated and run returns.
FairSpec == Spec /\ WF_vars(RunReturns)

-----------------------------------------------------------------------------
\* Vocabulary of the properties.

Constructed == pc # "new"

HasLast == history # <<>>
Last == history[Len(history)]

\* the last command panicked inside handle_key_event
LastKeyPanicked == status = "panicked" /\ pc = "event"

\* the cursor of an App value whose depth indexes its cursor stack
CursorOf(s) == s.cursor_positions[s.current_cursor_depth + 1]

\* the cursor of s points at an entry of its list
ValidCursor(s) == selection_ok(s)

\* the cursor of s points at a directory
OnDirectory(s) == ValidCursor(s) /\ is_dir(currently_selected_file(s))

\* c is the listing of directory p: the entries that could be read, each once,
\* ordered by path
IsListingOf(c, p) ==
    LET raw == FileSystem[p].raw
        read == {Append(p, raw[i].name) : i \in {j \in 1..Len(raw) : ~raw[j].err}}
    IN  /\ {c[i] : i \in 1..Len(c)} = read
        /\ Len(c) = Cardinality(read)
        /\ \A i, j \in 1..Len(c) : i < j => PathLess(c[i], c[j])

-----------------------------------------------------------------------------
\* C1: after any sequence of commands applied to a freshly constructed App, the
\* cursor stack has exactly currentDepth + 1 slots.
C1_StackLengthIsDepthPlusOne ==
    Constructed =>
        /\ current_cursor_depth >= 0
        /\ Len(cursor_positions) = current_cursor_depth + 1

\* C2: whenever the entry list is not empty, the cursor of the current depth
\* is the index of one of its entries.
C2_CursorIndexesAnEntry ==
    (Constructed /\ depth_ok(Self) /\ current_dir_contents # <<>>) =>
        /\ current_cursor_position(Self) >= 0
        /\ current_cursor_position(Self) < Len(current_dir_contents)

\* C3: entering the directory under the cursor and leaving it with the very
\* next command restores the path and the depth, and the cursor of the parent
\* depth is the value c it had before entering.
C3_EnterThenExitRestores ==
    (/\ Len(history) = 2
     /\ history[1].key = "Enter" /\ OnDirectory(history[1].before)
     /\ history[2].key = "Backspace") =>
        /\ ~LastKeyPanicked
        /\ current_dir_path = history[1].before.current_dir_path
        /\ current_cursor_depth = history[1].before.current_cursor_depth
        /\ depth_ok(Self)
        /\ current_cursor_position(Self) = CursorOf(history[1].before)

\* C3 happens: a directory entered from a cursor other than 0 has been left again.
C3_Witness ==
    /\ Len(history) = 2
    /\ history[1].key = "Enter" /\ OnDirectory(history[1].before)
    /\ CursorOf(history[1].before) > 0
    /\ history[2].key = "Backspace"
    /\ status = "running"

\* the last command entered a directory and returned
Entered ==
    /\ HasLast /\ Last.key = "Enter" /\ OnDirectory(Last.before)
    /\ ~LastKeyPanicked

\* C4: right after a directory is entered the cursor of the new depth is 0,
\* whatever cursor that directory had when it was last open.
C4_EnterStartsAtZero ==
    Entered => depth_ok(Self) /\ current_cursor_position(Self) = 0

\* C4 happens: a directory left with its cursor off 0 has been entered again.
C4_Witness ==
    /\ Len(history) = 2
    /\ history[1].key = "Backspace"
    /\ depth_ok(history[1].before) /\ CursorOf(history[1].before) > 0
    /\ Entered
    /\ current_dir_path = history[1].before.current_dir_path
    /\ status = "running"

\* C5: Back at the navigation root is ignored: path, entries, depth and cursor
\* stack are unchanged and the program keeps running.
C5_BackIgnoredAtRoot ==
    (HasLast /\ Last.key = "Backspace" /\ Last.before.current_cursor_depth = 0) =>
        /\ ~LastKeyPanicked
        /\ Self = Last.before

\* C6: Activate on an entry that is not a directory changes nothing.
C6_ActivateOnNonDirectoryIgnored ==
    (/\ HasLast /\ Last.key = "Enter"
     /\ ValidCursor(Last.before) /\ ~OnDirectory(Last.before)) =>
        /\ ~LastKeyPanicked
        /\ Self = Last.before

\* C6 happens: Activate was pressed on a file below the first entry and
\* the program went on.
C6_Witness ==
    /\ HasLast /\ Last.key = "Enter"
    /\ ValidCursor(Last.before) /\ ~OnDirectory(Last.before)
    /\ is_file(currently_selected_file(Last.before))
    /\ CursorOf(Last.before) > 0
    /\ status = "running"

\* C7: Activate on a directory that can be listed makes that entry's path (the
\* parent path plus the entry's name) the current path, makes the listing of
\* that path the entry list, and adds exactly 1 to the depth.
C7_ActivateEntersDirectory ==
    (/\ HasLast /\ Last.key = "Enter" /\ OnDirectory(Last.before)
     /\ read_dir_ok(currently_selected_file(Last.before))) =>
        /\ ~LastKeyPanicked
        /\ current_dir_path = currently_selected_file(Last.before)
        /\ Len(current_dir_path) = Len(Last.before.current_dir_path) + 1
        /\ path_pop(current_dir_path) = Last.before.current_dir_path
        /\ IsListingOf(current_dir_contents, current_dir_path)
        /\ current_cursor_depth = Last.before.current_cursor_depth + 1

\* C7 happens: a directory with several entries was entered below the root.
C7_Witness ==
    /\ Entered
    /\ Last.before.current_dir_path # RootPath
    /\ Last.before.current_dir_contents # current_dir_contents
    /\ current_dir_contents # <<>>
    /\ status = "running"

\* the cursor a MoveDown / MoveUp from index i of n entries must give
DownFrom(i, n) == IF i = n - 1 THEN 0 ELSE i + 1
UpFrom(i, n) == IF i = 0 THEN n - 1 ELSE i - 1

\* C8: from a valid cursor i of N >= 1 entries MoveDown gives 0 at the last
\* index and i + 1 elsewhere, MoveUp gives N - 1 at index 0 and i - 1
\* elsewhere, and MoveDown followed by MoveUp gives i again.
C8_VerticalMoves ==
    /\ (HasLast /\ Last.key = "Down" /\ ValidCursor(Last.before)) =>
          /\ ~LastKeyPanicked
          /\ current_cursor_position(Self) =
                 DownFrom(CursorOf(Last.before), Len(Last.before.current_dir_contents))
    /\ (HasLast /\ Last.key = "Up" /\ ValidCursor(Last.before)) =>
          /\ ~LastKeyPanicked
          /\ current_cursor_position(Self) =
                 UpFrom(CursorOf(Last.before), Len(Last.before.current_dir_contents))
    /\ (/\ Len(history) = 2
        /\ history[1].key = "Down" /\ ValidCursor(history[1].before)
        /\ history[2].key = "Up") =>
          current_cursor_position(Self) = CursorOf(history[1].before)

\* C8 happens: MoveDown wrapped from the last of several entries and MoveUp
\* wrapped back.
C8_Witness ==
    /\ Len(history) = 2
    /\ history[1].key = "Down" /\ ValidCursor(history[1].before)
    /\ Len(history[1].before.current_dir_contents) > 2
    /\ CursorOf(history[1].before) = Len(history[1].before.current_dir_contents) - 1
    /\ history[2].key = "Up"
    /\ status = "running"

\* C9: in an empty directory MoveUp, MoveDown, MoveLeft and MoveRight complete
\* and leave the whole state unchanged.
C9_MovesInEmptyDirectoryAreNoOps ==
    (/\ HasLast /\ Last.key \in {"Up", "Down", "Left", "Right"}
     /\ Last.before.current_dir_contents = <<>>) =>
        /\ ~LastKeyPanicked
        /\ Self = Last.before

\* C10: in an empty directory Activate and TogglePreview complete, index no
\* entry and leave path, depth, cursor stack and preview flag unchanged.
C10_ActivateAndPreviewInEmptyDirectoryAreNoOps ==
    (/\ HasLast /\ Last.key \in {"Enter", "c"}
     /\ Last.before.current_dir_contents = <<>>) =>
        /\ ~LastKeyPanicked
        /\ Self = Last.before

-----------------------------------------------------------------------------
\* Horizontal movement.

\* the column height a command handled with frame height fh works with
ColumnHeight(fh) == IF fh > 3 THEN fh - 3 ELSE 0

\* ceil(n / h): the least number of columns of height h that hold n entries
CeilDiv(n, h) == CHOOSE c \in 0..n : c * h >= n /\ (c = 0 \/ (c - 1) * h < n)

\* the cursor MoveRight must give from index i of n entries in columns of height h
RightFrom(i, n, h) ==
    LET candidate == i + h
    IN  IF candidate < n THEN candidate
        ELSE IF candidate < h * CeilDiv(n, h) THEN n - 1
        ELSE candidate % CeilDiv(n, h)

\* the last command was the horizontal move key from a valid cursor, with a
\* column height of at least 1
MovedHorizontally(key) ==
    /\ HasLast /\ Last.key = key
    /\ ValidCursor(Last.before)
    /\ ColumnHeight(Last.frame_height) >= 1

\* C11: from a valid cursor i of N >= 1 entries in columns of height H >= 1,
\* MoveRight gives i + H if that is below N, else N - 1 if i + H is below
\* H * numberOfColumns, else (i + H) mod numberOfColumns.
C11_MoveRightResult ==
    MovedHorizontally("Right") =>
        /\ ~LastKeyPanicked
        /\ current_cursor_position(Self) =
               RightFrom(CursorOf(Last.before), Len(Last.before.current_dir_contents),
                         ColumnHeight(Last.frame_height))
        /\ Self = set_cursor(Last.before, current_cursor_position(Self))

\* C11 happens: with three entries in columns of height 2, MoveRight went
\* from 0 to 2 and from 2 back to 0.
C11_Witness ==
    /\ Len(history) = 2
    /\ \A k \in 1..2 : history[k].key = "Right" /\ history[k].frame_height = 5
    /\ Len(current_dir_contents) = 3
    /\ CursorOf(history[1].before) = 0
    /\ CursorOf(history[2].before) = 2
    /\ current_cursor_position(Self) = 0
    /\ status = "running"

\* the cursor MoveLeft must give from index i of n entries in columns of height h
LeftFrom(i, n, h) ==
    LET candidate == IF i >= h THEN i - h ELSE (CeilDiv(n, h) - 1) * h + i
    IN  IF candidate < n THEN candidate ELSE n

C13_LeftThenRightReturns ==
    (/\ Len(history) = 2
     /\ history[1].key = "Left" /\ history[2].key = "Right"
     /\ ValidCursor(history[1].before)
     /\ ColumnHeight(history[1].frame_height) >= 1
     /\ history[2].frame_height = history[1].frame_height
     /\ CursorOf(history[1].before) < ColumnHeight(history[1].frame_height)) =>
        /\ ~LastKeyPanicked
        /\ current_cursor_position(Self) = CursorOf(history[1].before)

-----------------------------------------------------------------------------
\* Directory listings.

\* listing directory p fails
CannotBeListed(p) == p \in DOMAIN FileSystem /\ ~FileSystem[p].readable

\* the program died of a panic: it handles no further command
Died == status = "panicked"

C14_FailedReadKills ==
    \* Construct
    /\ (history = <<>> /\ CannotBeListed(current_dir_path)) =>
           Died /\ pc = "new"
    /\ pc = "new" => Died /\ history = <<>>
    \* EnterDirectory
    /\ (/\ HasLast /\ Last.key = "Enter" /\ OnDirectory(Last.before)
        /\ CannotBeListed(currently_selected_file(Last.before))) =>
           /\ Died /\ LastKeyPanicked
           /\ current_dir_contents = Last.before.current_dir_contents
    \* ExitDirectory
    /\ (/\ HasLast /\ Last.key = "Backspace"
        /\ CannotBeListed(path_pop(Last.before.current_dir_path))) =>
           /\ Died /\ LastKeyPanicked
           /\ current_dir_contents = Last.before.current_dir_contents

\* C14: a directory that cannot be listed is fatal in Construct,
\* EnterDirectory and ExitDirectory: the program ends with a panic, the entry
\* list is not replaced by an empty one, the read is not retried and no
\* further command is handled.
C14_ListingFailureIsFatal ==
    /\ []C14_FailedReadKills
    /\ [][~Died]_vars

\* C14 happens: leaving a directory whose parent cannot be listed killed the
\* program.
C14_Witness ==
    /\ HasLast /\ Last.key = "Backspace"
    /\ CannotBeListed(path_pop(Last.before.current_dir_path))
    /\ Last.before.current_dir_contents # <<>>
    /\ Died

\* the last command was one that does not change directory
StayedInDirectory ==
    /\ HasLast
    /\ \/ Last.key \notin {"Enter", "Backspace"}
       \/ Last.key = "Enter" /\ ValidCursor(Last.before) /\ ~OnDirectory(Last.before)

\* C15: after every completed command the entry list is the listing of the
\* current path ordered by full path; EnterDirectory and ExitDirectory replace
\* it as a whole and every other command leaves it as it was.
C15_EntryListIsSortedListing ==
    /\ (Constructed /\ ~LastKeyPanicked) =>
           IsListingOf(current_dir_contents, current_dir_path)
    /\ StayedInDirectory =>
           current_dir_contents = Last.before.current_dir_contents

\* C15 happens: a directory was left for a parent that enumerates its entries
\* out of order and fails to read one of them.
C15_Witness ==
    /\ HasLast /\ Last.key = "Backspace" /\ ~LastKeyPanicked
    /\ Last.before.current_dir_path # current_dir_path
    /\ current_dir_contents # entry_paths(current_dir_path, FileSystem[current_dir_path].raw)
    /\ Len(current_dir_contents) < Len(FileSystem[current_dir_path].raw)
    /\ status = "running"

-----------------------------------------------------------------------------
\* Construction.

\* C16: Construct makes the cursor stack currentDepth + 1 zeros, so a Back
\* into an ancestor that has never been browsed shows it with cursor 0,
\* wherever the cursor of the directory left was.
C16_ConstructZeroesAncestors ==
    /\ (Constructed /\ history = <<>>) =>
           /\ current_cursor_depth = Len(current_dir_path)
           /\ cursor_positions = [i \in 1..(current_cursor_depth + 1) |-> 0]
    /\ (/\ HasLast /\ Last.key = "Backspace" /\ ~LastKeyPanicked
        /\ ULt(current_cursor_depth, Last.shallowest)) =>
           /\ depth_ok(Self)
           /\ current_cursor_position(Self) = 0

\* C16 happens: Back left the start directory, whose cursor had been moved,
\* for a parent seen for the first time.
C16_Witness ==
    /\ HasLast /\ Last.key = "Backspace" /\ ~LastKeyPanicked
    /\ ULt(current_cursor_depth, Last.shallowest)
    /\ depth_ok(Last.before) /\ CursorOf(Last.before) > 0
    /\ status = "running"

-----------------------------------------------------------------------------
\* Preview and quit.

\* TogglePreview is accepted on s: a preview is showing or the cursor is over a file
PreviewAccepted(s) ==
    s.view_file \/ (ValidCursor(s) /\ is_file(currently_selected_file(s)))

\* C17: TogglePreview is accepted exactly when a preview is showing or the
\* cursor is over a file; accepted, it flips the preview flag and nothing
\* else, so two accepted toggles in a row restore the state; not accepted, it
\* completes and leaves the state as it was.
C17_TogglePreview ==
    /\ (HasLast /\ Last.key = "c") =>
           /\ ~LastKeyPanicked
           /\ Self = IF PreviewAccepted(Last.before)
                     THEN [Last.before EXCEPT !.view_file = ~Last.before.view_file]
                     ELSE Last.before
    /\ (/\ Len(history) = 2
        /\ \A k \in 1..2 : history[k].key = "c" /\ PreviewAccepted(history[k].before)) =>
           Self = history[1].before

\* Quit has set the flag of the App it was applied to and nothing else
QuitSetsExit ==
    (HasLast /\ Last.key = "q") =>
        /\ ~LastKeyPanicked
        /\ Self = [Last.before EXCEPT !.exit = TRUE]

\* run has returned Ok(()) only after a Quit, which was the last command
ExitedByQuit == status = "exited" => (exit /\ HasLast /\ Last.key = "q")

\* C18: Quit, in any state, sets the exit flag and leaves the navigation
\* state alone; from then on no command is processed and nothing is drawn,
\* and the command loop returns successfully.
C18_QuitTerminates ==
    /\ []QuitSetsExit
    /\ []ExitedByQuit
    /\ [][exit => (status' = "exited" /\ UNCHANGED <<AppFields, history, pc>>)]_vars
    /\ (exit ~> status = "exited")
    /\ [](status = "exited" => [](status = "exited"))

\* C18 happens: Quit was pressed with the cursor off the first entry and run
\* has returned.
C18_Witness ==
    /\ status = "exited"
    /\ HasLast /\ Last.key = "q"
    /\ ~Last.before.exit
    /\ CursorOf(Last.before) > 0

-----------------------------------------------------------------------------
\* Columns.

\* C19: for N >= 1 entries and every column height H >= 1 a terminal can
\* give, the number of columns the horizontal moves compute is ceil(N / H),
\* and render splits the entry list into that many columns.
C19_ColumnCount ==
    \A fh \in FrameHeights :
        LET H == saturating_sub(fh, 3)
            N == Len(current_dir_contents)
        IN  (Constructed /\ N >= 1 /\ H >= 1) =>
                /\ div_ceil(N, H) = CeilDiv(N, H)
                /\ Len(get_dir_contents_as_columns(Self, H)) = div_ceil(N, H)

\* C19 happens: with five entries in columns of height 2, MoveRight wrapped
\* from the third column to the first, and the list was drawn again.
C19_Witness ==
    /\ HasLast /\ Last.key = "Right"
    /\ ColumnHeight(Last.frame_height) = 2
    /\ Len(current_dir_contents) = 5
    /\ CursorOf(Last.before) = 4
    /\ current_cursor_position(Self) = 0
    /\ pc = "event" /\ status = "running"

-----------------------------------------------------------------------------
\* Preview.

Sentinels == {"Unable to read file", "Unable to read contents"}

\* the lines of the file at p, in order, whether or not they can be read
LinesOf(p) == file_open(p).items

\* reading the first L lines of p fails: p cannot be opened or one of those
\* lines cannot be read
ReadFails(p, L) ==
    \/ ~file_open(p).ok
    \/ \E k \in 1..Len(LinesOf(p)) : k <= L /\ ~LinesOf(p)[k].ok

\* C20: the preview of a file that cannot be opened, or whose read of the
\* first L lines fails, is exactly one sentinel line; otherwise it is the
\* first min(L, number of lines) lines of the file, L the column height.
C20_PreviewLines ==
    (Constructed /\ view_file /\ ValidCursor(Self)) =>
        \A fh \in FrameHeights :
            LET L == saturating_sub(fh, 3)
                p == currently_selected_file(Self)
                preview == file_contents(Self, L)
                n == Len(LinesOf(p))
                shown == IF L < n THEN L ELSE n
            IN  IF ReadFails(p, L)
                THEN Len(preview) = 1 /\ preview[1] \in Sentinels
                ELSE /\ Len(preview) = shown
                     /\ \A k \in 1..shown : preview[k] = LinesOf(p)[k].text

\* C20 happens: the preview was drawn for /d/ya, whose second line cannot be
\* read, after the cursor came down from /d/y, which cannot be opened.
C20_Witness ==
    /\ view_file /\ ValidCursor(Self)
    /\ currently_selected_file(Self) = <<n_d, n_ya>>
    /\ HasLast /\ Last.key = "Down"
    /\ Last.before.view_file
    /\ currently_selected_file(Last.before) = <<n_d, n_y>>
    /\ pc = "event" /\ status = "running"

-----------------------------------------------------------------------------
\* Frame effects.

MoveKeys == {"Up", "Down", "Left", "Right"}

\* stacks s and t hold the same cursor at every depth but depth d
SameButAt(s, t, d) ==
    /\ Len(s) = Len(t)
    /\ \A k \in 1..Len(s) : k # d + 1 => s[k] = t[k]

\* C21: MoveUp, MoveDown, MoveLeft and MoveRight change only the cursor of
\* the current depth: path, entry list, depth, stack length, the cursors of
\* all other depths and the preview flag stay as they were.
C21_MovesChangeOnlyCurrentCursor ==
    (HasLast /\ Last.key \in MoveKeys) =>
        /\ current_dir_path = Last.before.current_dir_path
        /\ current_dir_contents = Last.before.current_dir_contents
        /\ current_cursor_depth = Last.before.current_cursor_depth
        /\ view_file = Last.before.view_file
        /\ exit = Last.before.exit
        /\ SameButAt(cursor_positions, Last.before.cursor_positions,
                     current_cursor_depth)

\* C21 happens: one level down, below a parent whose cursor is not 0, a move
\* changed the cursor.
C21_Witness ==
    /\ HasLast /\ Last.key \in MoveKeys /\ ~LastKeyPanicked
    /\ current_cursor_depth = 1
    /\ Len(cursor_positions) = 2
    /\ cursor_positions[1] > 0
    /\ cursor_positions[2] # Last.before.cursor_positions[2]
    /\ status = "running"

\* stack t is stack s without its top slot
IsPopOf(t, s) == Len(s) >= 1 /\ t = SubSeq(s, 1, Len(s) - 1)

\* C22: entering a directory appends exactly one slot to the cursor stack,
\* leaving one removes exactly the top slot, and the cursors of the depths
\* that survive keep their values.
C22_EnterPushesExitPops ==
    /\ (/\ HasLast /\ Last.key = "Enter" /\ ~LastKeyPanicked
        /\ OnDirectory(Last.before)) =>
           IsPopOf(Last.before.cursor_positions, cursor_positions)
    /\ (HasLast /\ Last.key = "Backspace" /\ ~LastKeyPanicked) =>
           IsPopOf(cursor_positions, Last.before.cursor_positions)

\* C22 happens: below a parent with cursor 1, Activate took the stack from
\* two slots to three and Back took it to two again.
C22_Witness ==
    /\ Len(history) = 2
    /\ history[1].key = "Enter" /\ history[1].before.cursor_positions = <<1, 0>>
    /\ history[2].key = "Backspace" /\ history[2].before.cursor_positions = <<1, 0, 0>>
    /\ cursor_positions = <<1, 0>>
    /\ status = "running"

\* C23: as long as the program runs, the depth is the number of segments of
\* the current path below the root, whatever Activate and Back commands were
\* given (Back at the root included).
C23_DepthIsPathLength ==
    (Constructed /\ ~Died) => current_cursor_depth = Len(current_dir_path)

-----------------------------------------------------------------------------
\* The grid.

\* C24: when MoveLeft wraps from the first column to a last column that has
\* no entry in the cursor's row, the cursor goes to the lowest entry, N - 1.
C24_LeftWrapGoesToLowestEntry ==
    LET i == CursorOf(Last.before)
        N == Len(Last.before.current_dir_contents)
        H == ColumnHeight(Last.frame_height)
    IN  (/\ MovedHorizontally("Left")
         /\ i < H
         /\ (CeilDiv(N, H) - 1) * H + i >= N) =>
            /\ ~LastKeyPanicked
            /\ current_cursor_position(Self) = N - 1

\* the last command was MoveRight from a valid cursor with column height >= 1
\* and took the wrap branch: the candidate is not below H * numberOfColumns
RightWrapped ==
    /\ MovedHorizontally("Right")
    /\ CursorOf(Last.before) + ColumnHeight(Last.frame_height) >=
           ColumnHeight(Last.frame_height) *
               CeilDiv(Len(Last.before.current_dir_contents),
                       ColumnHeight(Last.frame_height))

\* C25: when MoveRight takes its wrap branch the cursor was in the last
\* column and the result lies in the first column (result < H).
C25_RightWrapLeavesLastForFirstColumn ==
    RightWrapped =>
        LET i == CursorOf(Last.before)
            N == Len(Last.before.current_dir_contents)
            H == ColumnHeight(Last.frame_height)
        IN  /\ ~LastKeyPanicked
            /\ i \div H = CeilDiv(N, H) - 1
            /\ current_cursor_position(Self) >= 0
            /\ current_cursor_position(Self) < H

\* C25 happens: MoveRight wrapped from the last of several columns and did
\* not land on the first entry.
C25_Witness ==
    /\ RightWrapped
    /\ CursorOf(Last.before) >= ColumnHeight(Last.frame_height)
    /\ current_cursor_position(Self) > 0
    /\ status = "running"

\* C26: for a valid cursor i and every column height H >= 1, the pair render
\* derives is (i div H, i mod H); the column exists, the row exists in it,
\* the entry there is entry i and no other entry is marked; column c holds
\* the entries c*H up to min((c+1)*H, N).
C26_ColumnAndRowIdentifyEntry ==
    (Constructed /\ ValidCursor(Self)) =>
        \A fh \in FrameHeights :
            LET H == saturating_sub(fh, 3)
                i == current_cursor_position(Self)
                N == Len(current_dir_contents)
                cols == get_dir_contents_as_columns(Self, H)
                cr == current_cursor_column_and_row(Self, H)
            IN  H >= 1 =>
                    /\ cr = <<i \div H, i % H>>
                    /\ cr[1] < Len(cols)
                    /\ cr[2] < Len(cols[cr[1] + 1])
                    /\ cols[cr[1] + 1][cr[2] + 1] = current_dir_contents[i + 1]
                    /\ marked_entries(Self, H) = {current_dir_contents[i + 1]}
                    /\ \A c \in 0..(Len(cols) - 1) :
                           cols[c + 1] =
                               SubSeq(current_dir_contents, c * H + 1,
                                      IF (c + 1) * H < N THEN (c + 1) * H ELSE N)

\* C26 happens: the list of five entries was drawn with the cursor on its
\* fourth entry, off the first column and off the first row at height 2.
C26_Witness ==
    /\ ValidCursor(Self)
    /\ Len(current_dir_contents) = 5
    /\ current_cursor_position(Self) = 3
    /\ pc = "event" /\ status = "running"

\* the last MoveRight snapped to the last entry of a short last column
RightSnapped ==
    LET i == CursorOf(Last.before)
        N == Len(Last.before.current_dir_contents)
        H == ColumnHeight(Last.frame_height)
    IN  /\ MovedHorizontally("Right")
        /\ i + H >= N
        /\ i + H < H * CeilDiv(N, H)

\* C27: MoveRight keeps the cursor's row (index mod H) unless it snaps to the
\* last entry of a short column; a wrap from the last column to the first
\* lands on the same row.
C27_RightKeepsRow ==
    (MovedHorizontally("Right") /\ ~RightSnapped) =>
        /\ ~LastKeyPanicked
        /\ current_cursor_position(Self) % ColumnHeight(Last.frame_height) =
               CursorOf(Last.before) % ColumnHeight(Last.frame_height)

\* C28: from a valid cursor of N >= 1 entries, with column height H >= 1,
\* MoveRight completes and gives a valid index again (0 <= result < N).
C28_RightStaysValid ==
    MovedHorizontally("Right") =>
        /\ ~LastKeyPanicked
        /\ depth_ok(Self)
        /\ current_cursor_position(Self) >= 0
        /\ current_cursor_position(Self) < Len(current_dir_contents)

\* C28 happens: MoveRight had no entry directly to the right in a short last
\* column and went to the last entry.
C28_Witness ==
    /\ RightSnapped
    /\ current_cursor_position(Self) = Len(current_dir_contents) - 1
    /\ current_cursor_position(Self) # CursorOf(Last.before)
    /\ status = "running"

-----------------------------------------------------------------------------
\* Robustness.

\* C29: whenever the preview flag is set, the entry list is not empty and the
\* cursor indexes one of its entries, so the entry the preview pane shows is
\* defined at every render.
C29_PreviewedEntryExists ==
    (Constructed /\ ~Died /\ view_file) =>
        /\ current_dir_contents # <<>>
        /\ ValidCursor(Self)

\* C30: the column height is the frame height minus 3, saturating at 0, and
\* with every frame height, those of 3 or less included, MoveLeft and
\* MoveRight from a valid cursor complete: nothing divides by zero or
\* underflows.
C30_HorizontalMovesSurviveAnyHeight ==
    /\ \A fh \in FrameHeights : saturating_sub(fh, 3) = ColumnHeight(fh)
    /\ (/\ HasLast /\ Last.key \in {"Left", "Right"}
        /\ ValidCursor(Last.before)) => ~LastKeyPanicked

====
